---- MODULE Spec2Model ----
(***************************************************************************)
(* Memory hierarchy simulator (src/Source1.cpp): the storage levels        *)
(* (Cache, used for L1..L3 and RAM, and TLB) with their FIFO / LRU /       *)
(* Random replacement, the walk of MemoryHierarchy::simulateAccess and the *)
(* counters of PerformanceAnalyzer.                                        *)
(*                                                                         *)
(* Two specifications share the level operators:                           *)
(*   LevelSpec  one storage level driven by arbitrary access() calls;      *)
(*   Spec       the whole hierarchy driven by runSimulation.               *)
(* std::time(nullptr) is the variable now, a clock in whole seconds that   *)
(* may or may not advance between and inside calls.  std::rand and         *)
(* std::shuffle are nondeterministic choices.                              *)
(***************************************************************************)
EXTENDS Integers, Sequences, FiniteSets, TLC

VARIABLES
    now,        \* std::time(nullptr), seconds
    \* ---- LevelSpec: one storage level
    kind,       \* "Cache" or "TLB": the class of the level
    lv,         \* the level object
    last,       \* the latest access() call: its argument and whether it hit
    count,      \* number of access() calls so far, counted up to MaxHist + 1
    hist,       \* the arguments of the calls so far, kept while count <= MaxHist
    outs,       \* their results (TRUE: hit), kept while count <= MaxHist
    crashed,    \* access() divided by zero (a level of no blocks): the run ended
    \* ---- Spec: the hierarchy
    tlb, caches, ram, diskAccessTime,   \* MemoryHierarchy's members
    analyzer,                           \* PerformanceAnalyzer's members
    pc, ci,     \* position of simulateAccess, and the cache loop's i
    address,    \* simulateAccess's argument
    totalTime,  \* simulateAccess's local totalTime
    outcomes,   \* the logAccess calls made for the current address, in order
    nSim,       \* number of addresses already simulated in this run
    probed,     \* per level, how many of its probes hit and how many missed
    rates       \* what report() computed, or "none"

levelVars == <<kind, lv, last, count, hist, outs, crashed>>
hierVars == <<tlb, caches, ram, diskAccessTime, analyzer, pc, ci, address,
              totalTime, outcomes, nSim, probed, rates>>
vars == <<now, levelVars, hierVars>>

----------------------------------------------------------------------------
(* Bounds of the model *)

\* largest capacity (size) of a level
MaxSize == 2
\* addresses (and TLB pages) are 0..MaxAddr
MaxAddr == 2
\* the clock runs from 0 to MaxTime
MaxTime == 1
\* length of the recorded prefix of access() calls in LevelSpec
MaxHist == 4
\* most cache levels of a hierarchy (the program accepts 1 to 3)
MaxCaches == 2
\* most addresses of one simulation run
MaxSim == 3

Addrs == 0..MaxAddr
BlockSizes == {1, 2}

Min(a, b) == IF a < b THEN a ELSE b

----------------------------------------------------------------------------
(* enum ReplacementPolicy *)

FIFO == "FIFO"
LRU == "LRU"
RANDOM == "RANDOM"
ReplacementPolicy == {FIFO, LRU, RANDOM}

(* struct CacheBlock, as default-constructed *)
CacheBlock == [tag |-> -1, valid |-> FALSE]

(* std::unordered_map<int,int>: a function on the set of its keys *)
EmptyMap == [k \in {} |-> 0]
Put(m, k, v) == [x \in (DOMAIN m) \cup {k} |-> IF x = k THEN v ELSE m[x]]
Erase(m, k) == [x \in (DOMAIN m) \ {k} |-> m[x]]
MapSize(m) == Cardinality(DOMAIN m)

(* blocks.resize(numBlocks): a vector indexed from 0 *)
NewBlocks(n) == [i \in 0..(n - 1) |-> CacheBlock]

(* Tags held by valid blocks, and the valid slots *)
ValidSlots(L) == {i \in DOMAIN L.blocks : L.blocks[i].valid}
Resident(L) == {L.blocks[i].tag : i \in ValidSlots(L)}

----------------------------------------------------------------------------
(* class Cache *)

\* A constructor that forgets to divide the capacity by the block size.
Cache_NumBlocksIsSize(s, bs, at, rp) ==
    [size |-> s, blockSize |-> bs, numBlocks |-> s, accessTime |-> at,
     policy |-> rp, blocks |-> NewBlocks(s), fifoQueue |-> <<>>,
     lruMap |-> EmptyMap]

\* Cache::Cache.  randomIndices is not kept: replace() reshuffles it before
\* every use, so its value between calls is never read.
Cache(s, bs, at, rp) ==
    [size |-> s, blockSize |-> bs, numBlocks |-> s \div bs, accessTime |-> at,
     policy |-> rp, blocks |-> NewBlocks(s \div bs), fifoQueue |-> <<>>,
     lruMap |-> EmptyMap]

\* Cache::getIndex
getIndex(L, addr) == (addr \div L.blockSize) % L.numBlocks

Install(L, i, tag) == [L EXCEPT !.blocks[i] = [tag |-> tag, valid |-> TRUE]]

\* case FIFO of replace()
replace_FIFO(L, index, tag) ==
    IF Len(L.fifoQueue) = L.numBlocks
    THEN LET oldIndex == Head(L.fifoQueue)
         IN  [Install(L, oldIndex, tag) EXCEPT
                  !.fifoQueue = Append(Tail(L.fifoQueue), index)]
    ELSE [Install(L, index, tag) EXCEPT !.fifoQueue = Append(@, index)]

\* The tags the scan of lruMap can end with when it starts from
\* oldestTime = t1: an entry replaces the candidate only when strictly older,
\* so the result is the first entry, in the map's iteration order (which is
\* unspecified), among those with the least time below t1; -1 when no entry
\* is older than t1.
lruScan(L, t1) ==
    LET older == {k \in DOMAIN L.lruMap : L.lruMap[k] < t1}
    IN  IF older = {} THEN {-1}
        ELSE {k \in older : \A j \in older : L.lruMap[k] <= L.lruMap[j]}

\* After the scan: erase lruTag, then overwrite the first block whose tag is
\* lruTag (valid or not) and stamp the new tag; nothing is installed when no
\* block carries lruTag.
lruEvict(L, lruTag, tag, t2) ==
    LET erased == [L EXCEPT !.lruMap = Erase(@, lruTag)]
        hits == {i \in DOMAIN L.blocks : L.blocks[i].tag = lruTag}
    IN  IF hits = {} THEN erased
        ELSE LET i == CHOOSE x \in hits : \A y \in hits : x <= y
             IN  [Install(erased, i, tag) EXCEPT !.lruMap = Put(@, tag, t2)]

\* case LRU of replace(): the set of possible results
replace_LRU(L, index, tag, t1, t2) ==
    IF MapSize(L.lruMap) = L.numBlocks
    THEN {lruEvict(L, lruTag, tag, t2) : lruTag \in lruScan(L, t1)}
    ELSE {[Install(L, index, tag) EXCEPT !.lruMap = Put(@, tag, t2)]}

\* std::shuffle(randomIndices): any order of 0..numBlocks-1
Shuffles(n) == Permutations(0..(n - 1))

\* A Random replacement that skips the search for a free block.
replace_RANDOM_NoFreeScan(L, tag) ==
    {Install(L, r, tag) : r \in 0..(L.numBlocks - 1)}

\* case RANDOM of replace(): the set of possible results
replace_RANDOM(L, tag) ==
    {LET free == {i \in 0..(L.numBlocks - 1) : ~L.blocks[p[i]].valid}
     IN  IF free # {}
         THEN Install(L, p[CHOOSE x \in free : \A y \in free : x <= y], tag)
         ELSE Install(L, r, tag) :
     p \in Shuffles(L.numBlocks), r \in 0..(L.numBlocks - 1)}

\* Cache::replace: the set of possible results
replace(L, index, tag, t1, t2) ==
    CASE L.policy = FIFO -> {replace_FIFO(L, index, tag)}
      [] L.policy = LRU -> replace_LRU(L, index, tag, t1, t2)
      [] L.policy = RANDOM -> replace_RANDOM(L, tag)

\* A lookup that does not compare the tag.
isHit_ValidOnly(L, index, tag) == L.blocks[index].valid

\* The hit test of access()
isHit(L, index, tag) == L.blocks[index].valid /\ L.blocks[index].tag = tag

\* An access() that runs replace() on a hit as well.
Cache_access_HitReplaces(L, addr, t1, t2) ==
    LET index == getIndex(L, addr)
        tag == addr \div L.blockSize
    IN  {[level |-> L2,
          time |-> IF isHit(L, index, tag) THEN L.accessTime ELSE -1] :
         L2 \in replace(L, index, tag, t1, t2)}

\* Cache::access: the set of possible [level after the call, returned time].
\* t1 is the clock at the call's first reading of it, t2 at its last.
Cache_access(L, addr, t1, t2) ==
    LET index == getIndex(L, addr)
        tag == addr \div L.blockSize
    IN  IF isHit(L, index, tag)
        THEN {[level |-> IF L.policy = LRU
                         THEN [L EXCEPT !.lruMap = Put(@, tag, t1)]
                         ELSE L,
               time |-> L.accessTime]}
        ELSE {[level |-> L2, time |-> -1] : L2 \in replace(L, index, tag, t1, t2)}

----------------------------------------------------------------------------
(* class TLB: a level of one-page blocks; its access() and replace() repeat *)
(* Cache's with the page as the tag                                        *)

\* TLB::TLB
TLB(s, at, rp) ==
    [size |-> s, blockSize |-> 1, numBlocks |-> s, accessTime |-> at,
     policy |-> rp, blocks |-> NewBlocks(s), fifoQueue |-> <<>>,
     lruMap |-> EmptyMap]

\* TLB::getIndex
TLB_getIndex(L, page) == page % L.numBlocks

\* TLB::replace
TLB_replace(L, index, page, t1, t2) ==
    CASE L.policy = FIFO -> {replace_FIFO(L, index, page)}
      [] L.policy = LRU -> replace_LRU(L, index, page, t1, t2)
      [] L.policy = RANDOM -> replace_RANDOM(L, page)

\* TLB::access
TLB_access(L, page, t1, t2) ==
    LET index == TLB_getIndex(L, page)
    IN  IF isHit(L, index, page)
        THEN {[level |-> IF L.policy = LRU
                         THEN [L EXCEPT !.lruMap = Put(@, page, t1)]
                         ELSE L,
               time |-> L.accessTime]}
        ELSE {[level |-> L2, time |-> -1] :
                  L2 \in TLB_replace(L, index, page, t1, t2)}

----------------------------------------------------------------------------
(* LevelSpec: one storage level, constructed empty, then any access() calls *)

NoAccess == [addr |-> -1, hit |-> FALSE]

\* The members of MemoryHierarchy while only a single level is exercised.
HierIdle ==
    /\ tlb = TLB(1, 0, FIFO)
    /\ caches = <<>>
    /\ ram = Cache(1, 1, 0, FIFO)
    /\ diskAccessTime = 0
    /\ analyzer = [totalAccesses |-> 0, hits |-> 0, misses |-> 0,
                   cacheHits |-> <<>>, cacheMisses |-> <<>>]
    /\ pc = "off"
    /\ ci = 0
    /\ address = 0
    /\ totalTime = 0
    /\ outcomes = <<>>
    /\ nSim = 0
    /\ probed = <<>>
    /\ rates = "none"

\* The levels a configuration can construct: a Cache (cache level or RAM) of
\* any capacity, block size and policy, or a TLB.  Neither constructor
\* rejects anything: a capacity below the block size gives a level of no
\* blocks.
LevelInit ==
    /\ now = 0
    /\ kind \in {"Cache", "TLB"}
    /\ \E s \in 0..MaxSize, bs \in BlockSizes, rp \in ReplacementPolicy :
          /\ kind = "TLB" => bs = 1
          /\ lv = IF kind = "TLB" THEN TLB(s, 1, rp) ELSE Cache(s, bs, 1, rp)
    /\ last = NoAccess
    /\ count = 0
    /\ hist = <<>>
    /\ outs = <<>>
    /\ crashed = FALSE
    /\ HierIdle

\* The tag access() derives from its argument
TagOf(L, a) == a \div L.blockSize

\* The slot access() looks the argument up in
HomeOf(L, a) == IF kind = "TLB" THEN TLB_getIndex(L, a) ELSE getIndex(L, a)

\* One access() call on the level; the clock may advance during the call.
LevelAccess ==
    /\ lv.numBlocks > 0
    /\ \E a \in Addrs, t2 \in now..Min(now + 1, MaxTime) :
      \E o \in (IF kind = "TLB" THEN TLB_access(lv, a, now, t2)
                               ELSE Cache_access(lv, a, now, t2)) :
        /\ lv' = o.level
        /\ now' = t2
        /\ last' = [addr |-> a, hit |-> (o.time # -1)]
        /\ count' = Min(count + 1, MaxHist + 1)
        /\ hist' = IF count < MaxHist THEN Append(hist, a) ELSE <<>>
        /\ outs' = IF count < MaxHist THEN Append(outs, o.time # -1) ELSE <<>>
        /\ UNCHANGED <<kind, crashed, hierVars>>

\* access() on a level of no blocks: getIndex computes % numBlocks with
\* numBlocks = 0, an integer division by zero, which ends the run (SIGFPE).
LevelAccessNoBlocks ==
    /\ lv.numBlocks = 0
    /\ ~crashed
    /\ crashed' = TRUE
    /\ UNCHANGED <<now, kind, lv, last, count, hist, outs, hierVars>>

\* The clock advances between calls.
Tick ==
    /\ now < MaxTime
    /\ now' = now + 1
    /\ UNCHANGED <<levelVars, hierVars>>

LevelNext == LevelAccess \/ LevelAccessNoBlocks \/ Tick

LevelSpec == LevelInit /\ [][LevelNext]_vars

----------------------------------------------------------------------------
(* Properties of one storage level (LevelSpec) *)

\* The tags of the recorded calls, in order
HistTags == [k \in 1..Len(hist) |-> TagOf(lv, hist[k])]

Distinct(seq) == \A i, j \in 1..Len(seq) : i # j => seq[i] # seq[j]

\* C1: no duplicate residency. For every Cache, RAM and TLB instance and
\* every policy, after any sequence of access() calls no tag is held by more
\* than one valid block.
C1_NoDuplicateResidency ==
    \A i, j \in ValidSlots(lv) : i # j => lv.blocks[i].tag # lv.blocks[j].tag

\* C2: FIFO order. On a FIFO level with N blocks, starting empty, after N+1
\* pairwise distinct tags t1..t(N+1) have been probed in that order, t1 is
\* not resident and t2..t(N+1) all are.
C2_FifoOrder ==
    (/\ lv.policy = FIFO
     /\ count = lv.numBlocks + 1
     /\ Len(hist) = count
     /\ Distinct(HistTags))
    => (/\ HistTags[1] \notin Resident(lv)
        /\ \A k \in 2..Len(hist) : HistTags[k] \in Resident(lv))

\* C3: LRU recency. On an LRU level with 2 blocks holding tags A and B, a hit
\* on A followed (at any later time) by a miss on a new tag C leaves A and C
\* resident and B not.
C3_LruRecency ==
    [][(/\ lv.policy = LRU
        /\ lv.numBlocks = 2
        /\ Cardinality(Resident(lv)) = 2
        /\ last.hit
        /\ ~last'.hit
        /\ TagOf(lv, last'.addr) \notin Resident(lv))
       => Resident(lv') = {TagOf(lv, last.addr), TagOf(lv, last'.addr)}]_vars

\* C4: Random fills before evicting. On a Random level a call made while some
\* block is still invalid leaves every valid block as it was; a valid block
\* is overwritten only when all blocks are valid.
C4_RandomFillsBeforeEvicting ==
    [][(lv.policy = RANDOM /\ ValidSlots(lv) # DOMAIN lv.blocks)
       => \A i \in ValidSlots(lv) : lv'.blocks[i] = lv.blocks[i]]_vars

\* C4 witness: a Random level of two blocks after two misses, the second
\* made with one block valid and one free.
C4_Witness ==
    /\ lv.policy = RANDOM
    /\ lv.numBlocks = 2
    /\ count = 2
    /\ outs = <<FALSE, FALSE>>
    /\ Cardinality(ValidSlots(lv)) = 2

\* C7: capacity invariant. On every level and under every policy the number
\* of valid blocks is at most numBlocks, the capacity divided by the block
\* size.
C7_CapacityInvariant ==
    /\ Cardinality(ValidSlots(lv)) <= lv.numBlocks
    /\ Cardinality(ValidSlots(lv)) <= lv.size \div lv.blockSize

\* C7 witness: a level of at least two blocks, all valid, that has served
\* more calls than it has blocks.
C7_Witness ==
    /\ lv.numBlocks >= 2
    /\ Cardinality(ValidSlots(lv)) = lv.numBlocks
    /\ count > lv.numBlocks

\* C9: LRU scenario. An empty LRU cache of capacity 2 and block size 1,
\* accessed with 0, 1, 0, 2, answers miss, miss, hit, miss and then holds
\* exactly the tags {0, 2}.
C9_LruScenario ==
    (/\ kind = "Cache"
     /\ lv.policy = LRU
     /\ lv.size = 2
     /\ lv.blockSize = 1
     /\ hist = <<0, 1, 0, 2>>)
    => (outs = <<FALSE, FALSE, TRUE, FALSE>> /\ Resident(lv) = {0, 2})

\* The FIFO caches of a single block
FifoOneBlock == kind = "Cache" /\ lv.policy = FIFO /\ lv.numBlocks = 1

C10_Scenario ==
    (FifoOneBlock /\ lv.blockSize = 1 /\ hist = <<0, 1, 0>>)
    => outs = <<FALSE, FALSE, FALSE>>

\* C10: FIFO capacity-1 scenario. An empty FIFO cache of capacity 1 and block
\* size 1, accessed with 0, 1, 0, answers miss, miss, miss; and on a FIFO
\* cache of one block a call hits only when its tag is the tag of the call
\* just before it.
C10_FifoCapacityOne ==
    /\ []C10_Scenario
    /\ [][(FifoOneBlock /\ last'.hit)
          => (last.addr # -1 /\ TagOf(lv, last'.addr) = TagOf(lv, last.addr))]_vars

\* C10 witness: the scenario has run to its end.
C10_Witness ==
    /\ FifoOneBlock
    /\ lv.blockSize = 1
    /\ hist = <<0, 1, 0>>
    /\ outs = <<FALSE, FALSE, FALSE>>

\* C12: configuration error. A level constructed with no capacity or with a
\* capacity below its block size does not come to exist, so no access() is
\* ever executed on a level of zero blocks.
C12_ConfigurationError ==
    (lv.size = 0 \/ lv.size < lv.blockSize \/ lv.numBlocks = 0) => ~crashed

\* C13: a miss installs the probed tag so that it can be found. After an
\* access(a) that missed, the tag of a is held by a valid block and the hit
\* test of an immediately following access(a) succeeds.
C13_MissInstalls ==
    (last.addr # -1 /\ ~last.hit)
    => (/\ TagOf(lv, last.addr) \in Resident(lv)
        /\ isHit(lv, HomeOf(lv, last.addr), TagOf(lv, last.addr)))

\* The recorded calls that admitted tag t (the misses on t)
Admissions(t) == {k \in 1..Len(hist) : HistTags[k] = t /\ ~outs[k]}

\* The latest of them, 0 when there is none
LastAdmission(t) ==
    IF Admissions(t) = {} THEN 0
    ELSE CHOOSE k \in Admissions(t) : \A j \in Admissions(t) : j <= k

\* C18: FIFO tracker invariant. On a FIFO level the length of fifoQueue is
\* the number of valid blocks, and the front of the queue is the slot that
\* holds the resident tag admitted the longest ago.
C18_FifoTracker ==
    lv.policy = FIFO
    => (/\ Len(lv.fifoQueue) = Cardinality(ValidSlots(lv))
        /\ (lv.fifoQueue # <<>> /\ Len(hist) = count)
           => LET f == Head(lv.fifoQueue)
              IN  /\ lv.blocks[f].valid
                  /\ \A t \in Resident(lv) :
                        LastAdmission(lv.blocks[f].tag) <= LastAdmission(t))

\* C19: LRU tracker invariant. On an LRU level the keys of lruMap are exactly
\* the tags held by valid blocks.
C19_LruTracker == lv.policy = LRU => DOMAIN lv.lruMap = Resident(lv)

\* C20: a hit changes no residency state. An access() that hits leaves every
\* block's tag and valid bit and the fifoQueue as they were; under FIFO and
\* Random lruMap is left as it was too, and under LRU lruMap changes at no
\* key but the accessed tag, whose entry is present afterwards.
C20_HitFrame ==
    [][last'.hit
       => (/\ lv'.blocks = lv.blocks
           /\ lv'.fifoQueue = lv.fifoQueue
           /\ lv.policy # LRU => lv'.lruMap = lv.lruMap
           /\ lv.policy = LRU
              => LET tag == TagOf(lv, last'.addr)
                 IN  /\ tag \in DOMAIN lv'.lruMap
                     /\ (DOMAIN lv'.lruMap) \ {tag} = (DOMAIN lv.lruMap) \ {tag}
                     /\ \A k \in (DOMAIN lv.lruMap) \ {tag} :
                           lv'.lruMap[k] = lv.lruMap[k])]_vars

\* C20 witness: an LRU level of two valid blocks whose latest call hit, after
\* the clock advanced past the admission of its tag.
C20_Witness ==
    /\ lv.policy = LRU
    /\ Cardinality(ValidSlots(lv)) = 2
    /\ last.hit
    /\ TagOf(lv, last.addr) \in DOMAIN lv.lruMap
    /\ lv.lruMap[TagOf(lv, last.addr)] = 1

----------------------------------------------------------------------------
(* class PerformanceAnalyzer *)

\* PerformanceAnalyzer::PerformanceAnalyzer; the vectors are indexed from 0
PerformanceAnalyzer(numCaches) ==
    [totalAccesses |-> 0, hits |-> 0, misses |-> 0,
     cacheHits |-> [i \in 0..(numCaches - 1) |-> 0],
     cacheMisses |-> [i \in 0..(numCaches - 1) |-> 0]]

\* A logAccess that leaves totalAccesses alone on a miss.
logAccess_MissUncounted(an, hit, cacheLevel) ==
    LET size == Cardinality(DOMAIN an.cacheHits)
    IN  IF hit
        THEN [an EXCEPT
                 !.totalAccesses = @ + 1,
                 !.hits = @ + 1,
                 !.cacheHits = IF cacheLevel < size
                               THEN [i \in DOMAIN @ |->
                                        IF i >= cacheLevel THEN @[i] + 1 ELSE @[i]]
                               ELSE @]
        ELSE [an EXCEPT
                 !.misses = @ + 1,
                 !.cacheMisses = IF cacheLevel < size
                                 THEN [@ EXCEPT ![cacheLevel] = @ + 1]
                                 ELSE @]

\* PerformanceAnalyzer::logAccess
logAccess(an, hit, cacheLevel) ==
    LET size == Cardinality(DOMAIN an.cacheHits)
    IN  IF hit
        THEN [an EXCEPT
                 !.totalAccesses = @ + 1,
                 !.hits = @ + 1,
                 !.cacheHits = IF cacheLevel < size
                               THEN [i \in DOMAIN @ |->
                                        IF i >= cacheLevel THEN @[i] + 1 ELSE @[i]]
                               ELSE @]
        ELSE [an EXCEPT
                 !.totalAccesses = @ + 1,
                 !.misses = @ + 1,
                 !.cacheMisses = IF cacheLevel < size
                                 THEN [@ EXCEPT ![cacheLevel] = @ + 1]
                                 ELSE @]

\* logAccess applied to a sequence of [hit, idx] calls, in order
RECURSIVE logAll(_, _)
logAll(an, calls) ==
    IF calls = <<>> THEN an
    ELSE logAll(logAccess(an, Head(calls).hit, Head(calls).idx), Tail(calls))

\* The double x / y of report(): the rational num/den when den # 0; NaN or
\* an infinity when den = 0 (no trap is raised).  Rounding is not modelled.
Ratio(x, y) == [num |-> x, den |-> y]

\* 1 - r, as report() computes the miss rate of a level
OneMinus(r) == [num |-> r.den - r.num, den |-> r.den]

\* What a read of cacheHits[i] past the end of the vector can yield
Garbage == {-1, 0, 1}

\* The values cacheHits[i] can yield in report(): the element, or, past the
\* end of the vector (undefined behaviour), whatever the memory there holds.
readCacheHits(an, i) ==
    IF i \in DOMAIN an.cacheHits THEN {an.cacheHits[i]} ELSE Garbage

\* PerformanceAnalyzer::report: the set of possible results.  The loop runs
\* over i = 0, 1, 2 whatever the number of levels.
report(an) ==
    {[overallHit |-> Ratio(an.hits, an.totalAccesses),
      overallMiss |-> Ratio(an.misses, an.totalAccesses),
      levelHit |-> [i \in 0..2 |-> Ratio(h[i], an.totalAccesses)],
      levelMiss |-> [i \in 0..2 |-> OneMinus(Ratio(h[i], an.totalAccesses))]] :
     h \in {g \in [0..2 -> UNION {readCacheHits(an, i) : i \in 0..2}] :
               \A i \in 0..2 : g[i] \in readCacheHits(an, i)}}

----------------------------------------------------------------------------
(* class MemoryHierarchy *)

\* The levels in their fixed order: enum CacheLevel, with the TLB before L1
TLBLevel == -1
L1 == 0
RAM == 3
DISK == 4
Levels == {TLBLevel} \cup (L1..(L1 + 2)) \cup {RAM, DISK}

\* One logAccess(hit, idx) call, with the level whose outcome it records
Outcome(level, hit, idx) == [level |-> level, hit |-> hit, idx |-> idx]

\* The calls are made on the analyzer and appended to the address's trace
Logged(calls) ==
    /\ analyzer' = logAll(analyzer, calls)
    /\ outcomes' = outcomes \o calls

\* One more probe of the level counted
Probed(level, hit) ==
    probed' = [probed EXCEPT ![level] =
                  IF hit THEN [@ EXCEPT !.hits = @ + 1]
                         ELSE [@ EXCEPT !.misses = @ + 1]]

\* MemoryHierarchy::MemoryHierarchy, for the configurations explored: n cache
\* levels, L1 of one one-byte block and the others of two, a RAM of two
\* one-byte blocks and a TLB of 2 entries, all with the same policy.
Init ==
    /\ now = 0
    /\ \E n \in 1..MaxCaches, policy \in ReplacementPolicy :
          /\ caches = [i \in 1..n |-> Cache(Min(i, 2), 1, 2, policy)]
          /\ ram = Cache(2, 1, 3, policy)
          /\ tlb = TLB(2, 1, policy)
          /\ analyzer = PerformanceAnalyzer(n + 1)
    /\ diskAccessTime = 4
    /\ pc = "idle"
    /\ ci = 0
    /\ address = 0
    /\ totalTime = 0
    /\ outcomes = <<>>
    /\ nSim = 0
    /\ probed = [l \in Levels |-> [hits |-> 0, misses |-> 0]]
    /\ rates = "none"
    /\ kind = "Cache"
    /\ lv = Cache(1, 1, 0, FIFO)
    /\ last = NoAccess
    /\ count = 0
    /\ hist = <<>>
    /\ outs = <<>>
    /\ crashed = FALSE

NumCaches == Len(caches)

\* runSimulation's loop takes the next address and calls simulateAccess
Start ==
    /\ pc \in {"idle", "done"}
    /\ nSim < MaxSim
    /\ \E a \in Addrs : address' = a
    /\ totalTime' = 0
    /\ outcomes' = <<>>
    /\ pc' = "tlb"
    /\ UNCHANGED <<now, levelVars, tlb, caches, ram, diskAccessTime, analyzer,
                   ci, nSim, probed, rates>>

\* simulateAccess returns
Return ==
    /\ pc' = "done"
    /\ nSim' = nSim + 1

\* A walk that goes from a TLB miss straight to the caches.
ProbeTLB_NoTranslation ==
    /\ pc = "tlb"
    /\ \E t2 \in now..Min(now + 1, MaxTime) :
         \E o \in TLB_access(tlb, address \div tlb.size, now, t2) :
           /\ tlb' = o.level
           /\ now' = t2
           /\ Probed(TLBLevel, o.time # -1)
           /\ IF o.time # -1
              THEN /\ totalTime' = totalTime + o.time
                   /\ Logged(<<Outcome(TLBLevel, TRUE, 0)>>)
              ELSE /\ totalTime' = totalTime + tlb.accessTime
                   /\ Logged(<<Outcome(TLBLevel, FALSE, 0)>>)
           /\ pc' = "cache"
    /\ ci' = 0
    /\ UNCHANGED <<levelVars, caches, ram, diskAccessTime, address, nSim, rates>>

\* simulateAccess: the TLB probe
ProbeTLB ==
    /\ pc = "tlb"
    /\ \E t2 \in now..Min(now + 1, MaxTime) :
         \E o \in TLB_access(tlb, address \div tlb.size, now, t2) :
           /\ tlb' = o.level
           /\ now' = t2
           /\ Probed(TLBLevel, o.time # -1)
           /\ IF o.time # -1
              THEN /\ totalTime' = totalTime + o.time
                   /\ Logged(<<Outcome(TLBLevel, TRUE, 0)>>)
                   /\ pc' = "cache"
              ELSE /\ totalTime' = totalTime + tlb.accessTime
                   /\ Logged(<<Outcome(TLBLevel, FALSE, 0)>>)
                   /\ pc' = "xlat"
    /\ ci' = 0
    /\ UNCHANGED <<levelVars, caches, ram, diskAccessTime, address, nSim, rates>>

\* A translation probe whose hit invalidates the block it found.
ProbeXlat_HitInvalidates ==
    /\ pc = "xlat"
    /\ \E t2 \in now..Min(now + 1, MaxTime) :
         \E o \in Cache_access(ram, address, now, t2) :
           /\ now' = t2
           /\ IF o.time # -1
              THEN /\ ram' = [o.level EXCEPT
                                  !.blocks[getIndex(ram, address)] = CacheBlock]
                   /\ totalTime' = totalTime + o.time
                   /\ Logged(<<Outcome(RAM, TRUE, NumCaches)>>)
                   /\ probed' = [probed EXCEPT ![RAM].hits = @ + 1]
              ELSE /\ ram' = o.level
                   /\ totalTime' = totalTime + ram.accessTime + diskAccessTime
                   /\ Logged(<<Outcome(RAM, FALSE, NumCaches),
                               Outcome(DISK, FALSE, NumCaches + 1)>>)
                   /\ probed' = [probed EXCEPT ![RAM].misses = @ + 1,
                                               ![DISK].hits = @ + 1]
    /\ pc' = "cache"
    /\ UNCHANGED <<levelVars, tlb, caches, diskAccessTime, ci, address, nSim, rates>>

\* simulateAccess after a TLB miss: the RAM probe for the physical address
\* and, when it misses, the disk access that follows it
ProbeXlat ==
    /\ pc = "xlat"
    /\ \E t2 \in now..Min(now + 1, MaxTime) :
         \E o \in Cache_access(ram, address, now, t2) :
           /\ ram' = o.level
           /\ now' = t2
           /\ IF o.time # -1
              THEN /\ totalTime' = totalTime + o.time
                   /\ Logged(<<Outcome(RAM, TRUE, NumCaches)>>)
                   /\ probed' = [probed EXCEPT ![RAM].hits = @ + 1]
              ELSE /\ totalTime' = totalTime + ram.accessTime + diskAccessTime
                   /\ Logged(<<Outcome(RAM, FALSE, NumCaches),
                               Outcome(DISK, FALSE, NumCaches + 1)>>)
                   /\ probed' = [probed EXCEPT ![RAM].misses = @ + 1,
                                               ![DISK].hits = @ + 1]
    /\ pc' = "cache"
    /\ UNCHANGED <<levelVars, tlb, caches, diskAccessTime, ci, address, nSim, rates>>

\* A loop that steps over every other cache level.
cacheLoopNext_SkipOne(i) == i + 2

\* The ++i of the loop over the cache levels
cacheLoopNext(i) == i + 1

\* A loop over the cache levels that goes on after a hit.
ProbeCache_NoStop ==
    /\ pc = "cache"
    /\ \E t2 \in now..Min(now + 1, MaxTime) :
         \E o \in Cache_access(caches[ci + 1], address, now, t2) :
           /\ caches' = [caches EXCEPT ![ci + 1] = o.level]
           /\ now' = t2
           /\ Probed(L1 + ci, o.time # -1)
           /\ totalTime' = totalTime + caches[ci + 1].accessTime
           /\ Logged(<<Outcome(L1 + ci, o.time # -1, ci + 1)>>)
           /\ ci' = cacheLoopNext(ci)
           /\ pc' = IF cacheLoopNext(ci) < NumCaches THEN "cache" ELSE "ram"
           /\ nSim' = nSim
    /\ UNCHANGED <<levelVars, tlb, ram, diskAccessTime, address, rates>>

\* simulateAccess: one turn of the loop over the cache levels (the same loop
\* is written three times, after a TLB hit and after each translation result)
ProbeCache ==
    /\ pc = "cache"
    /\ \E t2 \in now..Min(now + 1, MaxTime) :
         \E o \in Cache_access(caches[ci + 1], address, now, t2) :
           /\ caches' = [caches EXCEPT ![ci + 1] = o.level]
           /\ now' = t2
           /\ Probed(L1 + ci, o.time # -1)
           /\ IF o.time # -1
              THEN /\ totalTime' = totalTime + o.time
                   /\ Logged(<<Outcome(L1 + ci, TRUE, ci + 1)>>)
                   /\ ci' = ci
                   /\ Return
              ELSE /\ totalTime' = totalTime + caches[ci + 1].accessTime
                   /\ Logged(<<Outcome(L1 + ci, FALSE, ci + 1)>>)
                   /\ ci' = cacheLoopNext(ci)
                   /\ pc' = IF cacheLoopNext(ci) < NumCaches THEN "cache" ELSE "ram"
                   /\ nSim' = nSim
    /\ UNCHANGED <<levelVars, tlb, ram, diskAccessTime, address, rates>>

\* A RAM probe that charges no latency when it misses.
ProbeRAM_MissFree ==
    /\ pc = "ram"
    /\ \E t2 \in now..Min(now + 1, MaxTime) :
         \E o \in Cache_access(ram, address, now, t2) :
           /\ ram' = o.level
           /\ now' = t2
           /\ Probed(RAM, o.time # -1)
           /\ IF o.time # -1
              THEN /\ totalTime' = totalTime + o.time
                   /\ Logged(<<Outcome(RAM, TRUE, NumCaches)>>)
                   /\ Return
              ELSE /\ totalTime' = totalTime
                   /\ Logged(<<Outcome(RAM, FALSE, NumCaches)>>)
                   /\ pc' = "disk"
                   /\ nSim' = nSim
    /\ UNCHANGED <<levelVars, tlb, caches, diskAccessTime, ci, address, rates>>

\* simulateAccess: the RAM probe after every cache level missed
ProbeRAM ==
    /\ pc = "ram"
    /\ \E t2 \in now..Min(now + 1, MaxTime) :
         \E o \in Cache_access(ram, address, now, t2) :
           /\ ram' = o.level
           /\ now' = t2
           /\ Probed(RAM, o.time # -1)
           /\ IF o.time # -1
              THEN /\ totalTime' = totalTime + o.time
                   /\ Logged(<<Outcome(RAM, TRUE, NumCaches)>>)
                   /\ Return
              ELSE /\ totalTime' = totalTime + ram.accessTime
                   /\ Logged(<<Outcome(RAM, FALSE, NumCaches)>>)
                   /\ pc' = "disk"
                   /\ nSim' = nSim
    /\ UNCHANGED <<levelVars, tlb, caches, diskAccessTime, ci, address, rates>>

\* A disk access that logs the miss and forgets the hit.
diskCalls_MissOnly(n) == <<Outcome(DISK, FALSE, n + 1)>>

\* The logAccess calls of a disk access at the end of the walk
diskCalls(n) == <<Outcome(DISK, FALSE, n + 1), Outcome(DISK, TRUE, n + 1)>>

\* simulateAccess: the disk access after the RAM missed.  The sleep is the
\* clock advancing.
AccessDisk ==
    /\ pc = "disk"
    /\ totalTime' = totalTime + diskAccessTime
    /\ Logged(diskCalls(NumCaches))
    /\ Probed(DISK, TRUE)
    /\ Return
    /\ UNCHANGED <<now, levelVars, tlb, caches, ram, diskAccessTime, ci, address,
                   rates>>

\* runSimulation after its loop: analyzer.report()
Report ==
    /\ pc \in {"idle", "done"}
    /\ \E r \in report(analyzer) : rates' = r
    /\ pc' = "reported"
    /\ UNCHANGED <<now, levelVars, tlb, caches, ram, diskAccessTime, analyzer,
                   ci, address, totalTime, outcomes, nSim, probed>>

Walk == ProbeTLB \/ ProbeXlat \/ ProbeCache \/ ProbeRAM \/ AccessDisk

Next == Start \/ Walk \/ Report \/ Tick

Spec == Init /\ [][Next]_vars

----------------------------------------------------------------------------
(* Properties of the hierarchy (Spec) *)

WalkPcs == {"tlb", "xlat", "cache", "ram", "disk"}

LevelsOf(seq) == [k \in 1..Len(seq) |-> seq[k].level]

NonDecreasing(ls) == \A k \in 1..(Len(ls) - 1) : ls[k] <= ls[k + 1]

\* The levels this hierarchy has
Configured == {TLBLevel} \cup {L1 + i : i \in 0..(NumCaches - 1)} \cup {RAM, DISK}

\* Every configured level from the first to the last of ls occurs in ls
NoneSkipped(ls) ==
    ls = <<>> \/ \A l \in Configured :
                    (ls[1] <= l /\ l <= ls[Len(ls)]) => \E k \in 1..Len(ls) : ls[k] = l

InOrder(seq) == NonDecreasing(LevelsOf(seq)) /\ NoneSkipped(LevelsOf(seq))

C5_Bounded ==
    /\ Len(outcomes) <= NumCaches + 6
    /\ pc \in WalkPcs => ENABLED Walk
    /\ pc = "done" => (outcomes # <<>> /\ outcomes[Len(outcomes)].hit)

\* C5: hierarchy termination. Whatever the address and the state of the
\* hierarchy, a walk of simulateAccess is never stuck, every step of it
\* records at least one outcome, it records at most NumCaches + 6 of them,
\* and when it has returned the last outcome recorded is a hit.
C5_HierarchyTermination ==
    /\ []C5_Bounded
    /\ [][Walk => Len(outcomes') > Len(outcomes)]_vars

\* C5 witness: a walk that returned after the longest trace there is (TLB
\* miss, translation miss in RAM and disk, every cache, RAM again, disk).
C5_Witness ==
    /\ pc = "done"
    /\ Len(outcomes) = NumCaches + 6
    /\ outcomes[Len(outcomes)].level = DISK

\* C6 as stated: the levels of the outcomes recorded for an address are
\* non-decreasing in the order TLB < L1 < L2 < L3 < RAM < DISK and no
\* configured level between the first and the last is skipped.
C6_LevelOrder == InOrder(outcomes)

\* How many translation outcomes follow the TLB outcome: none after a TLB
\* hit; after a TLB miss the RAM probe and, when it missed, the disk access.
TranslationLen ==
    IF Len(outcomes) >= 2 /\ ~outcomes[1].hit
    THEN (IF outcomes[2].hit THEN 1 ELSE 2)
    ELSE 0

WithoutTranslation ==
    IF outcomes = <<>> THEN <<>>
    ELSE <<outcomes[1]>> \o SubSeq(outcomes, 2 + TranslationLen, Len(outcomes))

\* C6, amended: the trace starts with the TLB outcome; after a TLB miss it goes
\* on with the translation outcomes, RAM and, if RAM missed, DISK, before
\* L1; with those set aside the levels are non-decreasing and no configured
\* level between the first and the last is skipped.
C6_LevelOrderAmended ==
    /\ outcomes # <<>> => outcomes[1].level = TLBLevel
    /\ TranslationLen >= 1 => outcomes[2].level = RAM
    /\ TranslationLen = 2 => outcomes[3].level = DISK
    /\ InOrder(WithoutTranslation)

\* C6 witness: a walk that returned from the RAM probe after a TLB miss, a
\* translation hit in RAM and a miss in every cache.
C6_Witness ==
    /\ pc = "done"
    /\ TranslationLen = 1
    /\ Len(outcomes) = NumCaches + 3
    /\ outcomes[Len(outcomes)].level = RAM

\* The double r lies in [0, 1]
InUnit(r) == r.den > 0 /\ 0 <= r.num /\ r.num <= r.den

\* The doubles a and b add up to 1
SumsToOne(a, b) == a.den > 0 /\ a.den = b.den /\ a.num + b.num = a.den

\* Level i of the report has at least one recorded access
Recorded(i) ==
    /\ i \in DOMAIN analyzer.cacheHits
    /\ analyzer.cacheHits[i] + analyzer.cacheMisses[i] >= 1

\* C8: rate bounds. When report() runs after at least one recorded outcome,
\* every rate it computes, overall and per level, lies in [0, 1], and for
\* every level with a recorded access the hit and miss rates add up to 1.
C8_RateBounds ==
    (pc = "reported" /\ analyzer.totalAccesses >= 1)
    => (/\ InUnit(rates.overallHit)
        /\ InUnit(rates.overallMiss)
        /\ \A i \in 0..2 :
              /\ InUnit(rates.levelHit[i])
              /\ InUnit(rates.levelMiss[i])
              /\ Recorded(i) => SumsToOne(rates.levelHit[i], rates.levelMiss[i]))

\* The double r is 0
IsZero(r) == r.den # 0 /\ r.num = 0

\* C11: empty stream. When runSimulation processed no address, report()
\* shows totalAccesses = 0 and every rate, overall and per level, hit and
\* miss, is 0.
C11_EmptyStream ==
    (pc = "reported" /\ nSim = 0)
    => (/\ analyzer.totalAccesses = 0
        /\ IsZero(rates.overallHit)
        /\ IsZero(rates.overallMiss)
        /\ \A i \in 0..2 : IsZero(rates.levelHit[i]) /\ IsZero(rates.levelMiss[i]))

CacheLevels == L1..(L1 + 2)

\* A cache-level hit is the last outcome of its address and ends the walk
C14_HitIsLast ==
    \A k \in 1..Len(outcomes) :
        (outcomes[k].level \in CacheLevels /\ outcomes[k].hit)
        => (k = Len(outcomes) /\ pc \in {"done", "reported"})

\* C14: stop at first cache hit. When the probe of cache level i hits, the
\* walk returns: the hit is the last outcome recorded for the address, the
\* step leaves every later cache level and the RAM as they were, and nothing
\* of the hierarchy or the analyzer changes before the next address starts.
C14_StopAtFirstHit ==
    /\ []C14_HitIsLast
    /\ [][(/\ pc = "cache"
           /\ Len(outcomes') > Len(outcomes)
           /\ outcomes'[Len(outcomes')].hit)
          => (/\ pc' = "done"
              /\ ram' = ram
              /\ \A j \in 1..NumCaches : j > ci + 1 => caches'[j] = caches[j])]_vars
    /\ [][pc = "done"
          => (tlb' = tlb /\ caches' = caches /\ ram' = ram /\ analyzer' = analyzer)]_vars

\* C14 witness: a hierarchy of two cache levels whose walk returned from a
\* hit in L1.
C14_Witness ==
    /\ pc = "done"
    /\ NumCaches = 2
    /\ outcomes[Len(outcomes)] = Outcome(L1, TRUE, 1)

\* C15: disk always hits. Every disk access is recorded as one outcome, a
\* hit: no DISK outcome is a miss and no two DISK outcomes follow each other.
C15_DiskAlwaysHits ==
    /\ \A k \in 1..Len(outcomes) : outcomes[k].level = DISK => outcomes[k].hit
    /\ \A k \in 1..(Len(outcomes) - 1) :
          ~(outcomes[k].level = DISK /\ outcomes[k + 1].level = DISK)

\* The position of the first L1 outcome, or past the end when there is none
FirstL1 ==
    IF \E k \in 1..Len(outcomes) : outcomes[k].level = L1
    THEN CHOOSE k \in 1..Len(outcomes) :
             /\ outcomes[k].level = L1
             /\ \A j \in 1..(k - 1) : outcomes[j].level # L1
    ELSE Len(outcomes) + 1

RamOutcomes(from, to) ==
    Cardinality({k \in from..to : k \in 1..Len(outcomes) /\ outcomes[k].level = RAM})

\* The walk has made its data-path RAM probe
DataRamProbed ==
    \/ pc = "disk"
    \/ /\ pc \in {"done", "reported"}
       /\ outcomes # <<>>
       /\ outcomes[Len(outcomes)].level \in {RAM, DISK}

C16_Outcomes ==
    outcomes # <<>>
    => (/\ outcomes[1].level = TLBLevel
        /\ outcomes[1].hit => RamOutcomes(1, FirstL1 - 1) = 0
        /\ (~outcomes[1].hit /\ pc = "xlat") => Len(outcomes) = 1
        /\ (~outcomes[1].hit /\ pc # "xlat")
           => (RamOutcomes(1, FirstL1 - 1) = 1 /\ outcomes[2].level = RAM)
        /\ DataRamProbed => RamOutcomes(FirstL1, Len(outcomes)) = 1)

RamProbes(p) == p[RAM].hits + p[RAM].misses

\* C16: TLB-miss translation probe. After a TLB miss one RAM probe is made
\* and recorded before L1 is probed, and the data-path RAM probe made later
\* is recorded as an outcome of its own; after a TLB hit no RAM probe
\* precedes the L1 probe.
C16_TranslationProbe ==
    /\ []C16_Outcomes
    /\ [][(pc = "tlb" /\ pc' = "cache") => RamProbes(probed') = RamProbes(probed)]_vars
    /\ [][(pc = "tlb" /\ pc' # "tlb" /\ ~outcomes'[1].hit) => pc' = "xlat"]_vars
    /\ [][(pc = "xlat" /\ pc' # "xlat")
          => (pc' = "cache" /\ ci' = 0 /\ RamProbes(probed') = RamProbes(probed) + 1)]_vars

\* C16 witness: a walk that returned from a hit of the data-path RAM probe
\* after a TLB miss and a translation probe that missed.
C16_Witness ==
    /\ pc = "done"
    /\ ~outcomes[1].hit
    /\ TranslationLen = 2
    /\ Len(outcomes) = NumCaches + 4
    /\ outcomes[Len(outcomes)] = Outcome(RAM, TRUE, NumCaches)

\* The index of a level's counters in cacheHits and cacheMisses: the second
\* argument of the logAccess calls made for that level
LevelIdx(l) ==
    IF l = TLBLevel THEN 0
    ELSE IF l = RAM THEN NumCaches
    ELSE l - L1 + 1

\* C17: per-level counting. For the TLB, every cache level and the RAM, the
\* hit counter of the level is the number of its probes that hit and the miss
\* counter the number that missed.
C17_PerLevelCounting ==
    \A l \in Configured \ {DISK} :
        /\ analyzer.cacheHits[LevelIdx(l)] = probed[l].hits
        /\ analyzer.cacheMisses[LevelIdx(l)] = probed[l].misses

\* The latency charged for the k-th outcome of the address: the fixed access
\* latency of the level probed; for the disk, the disk latency at the first
\* outcome of each disk access (a disk access that ends the walk is logged
\* by two calls in a row)
Charge(k) ==
    LET l == outcomes[k].level
    IN  IF l = TLBLevel THEN tlb.accessTime
        ELSE IF l \in CacheLevels THEN caches[l - L1 + 1].accessTime
        ELSE IF l = RAM THEN ram.accessTime
        ELSE IF k > 1 /\ outcomes[k - 1].level = DISK THEN 0
        ELSE diskAccessTime

RECURSIVE ChargedUpTo(_)
ChargedUpTo(k) == IF k = 0 THEN 0 ELSE ChargedUpTo(k - 1) + Charge(k)

\* C21: latency accounting. The total latency accumulated by simulateAccess
\* is the sum of the access latency of every level probed for the address,
\* once per probe, on a miss as on a hit, plus the disk latency once per disk
\* access.
C21_LatencyAccounting == totalTime = ChargedUpTo(Len(outcomes))

\* C21 witness: the longest walk has returned: TLB miss, translation miss in
\* RAM and disk, a miss in each of two cache levels, RAM miss, disk.
C21_Witness ==
    /\ pc = "done"
    /\ NumCaches = 2
    /\ Len(outcomes) = 8
    /\ totalTime = tlb.accessTime + 2 * ram.accessTime + 2 * diskAccessTime
                   + caches[1].accessTime + caches[2].accessTime

\* The translation RAM probe of the current address has been made and hit
TranslationHit ==
    /\ Len(outcomes) >= 2
    /\ ~outcomes[1].hit
    /\ outcomes[2] = Outcome(RAM, TRUE, NumCaches)

\* C22: when the TLB missed and the translation RAM probe hit, the disk is
\* never accessed for that address: the walk does not reach the disk, no
\* DISK outcome is recorded, and the data-path RAM probe, when it is made,
\* hits and ends the walk.
C22_TranslationHitNoDisk ==
    TranslationHit
    => (/\ pc # "disk"
        /\ \A k \in 1..Len(outcomes) : outcomes[k].level # DISK
        /\ \A k \in 3..Len(outcomes) :
              outcomes[k].level = RAM
              => (outcomes[k].hit /\ k = Len(outcomes) /\ pc \in {"done", "reported"}))

\* C22 witness: after a TLB miss and a translation hit, both cache levels
\* missed and the walk returned from the data-path RAM probe.
C22_Witness ==
    /\ TranslationHit
    /\ NumCaches = 2
    /\ pc = "done"
    /\ outcomes[3] = Outcome(L1, FALSE, 1)
    /\ outcomes[4] = Outcome(L1 + 1, FALSE, 2)
    /\ outcomes[5] = Outcome(RAM, TRUE, 2)

\* C23: on an LRU level lruMap never holds more than numBlocks entries.
C23_LruMapBounded == lv.policy = LRU => MapSize(lv.lruMap) <= lv.numBlocks

C24_Sums ==
    /\ analyzer.hits + analyzer.misses = analyzer.totalAccesses
    /\ analyzer.totalAccesses >= Len(outcomes)
    /\ analyzer.totalAccesses >= 2 * nSim

\* C24: analyzer counts. hits + misses = totalAccesses; every step of a
\* walk raises totalAccesses by the number of outcomes it recorded, and
\* nothing else changes it, so that totalAccesses counts the logAccess calls
\* and not the addresses simulated.
C24_AnalyzerCounts ==
    /\ []C24_Sums
    /\ [][analyzer'.totalAccesses - analyzer.totalAccesses
          = (IF pc \in WalkPcs THEN Len(outcomes') - Len(outcomes) ELSE 0)]_vars

\* C24 witness: one address simulated, eight logAccess calls made for it.
C24_Witness ==
    /\ pc = "done"
    /\ nSim = 1
    /\ Len(outcomes) = 8
    /\ analyzer.totalAccesses = 8
    /\ analyzer.hits = 1
    /\ analyzer.misses = 7

====
